---- MODULE Spec2Model ----
(***************************************************************************)
(* A model of the Rust shell of this repository: the tokenizer/parser of   *)
(* src/src/parser.rs, the pipeline executor of src/src/command.rs and the  *)
(* read-parse-execute loop of src/src/main.rs.                             *)
(*                                                                         *)
(* A string is a sequence of characters, a character a one-character TLA+  *)
(* string.  Spec is the parser run on every input line of a bounded set;   *)
(* ExecSpec is the executor run on every pipeline of a bounded set;        *)
(* MainSpec is the loop of src/src/main.rs around both.                    *)
(***************************************************************************)
EXTENDS Integers, Sequences, FiniteSets, TLC

\* ------------------------------------------------------------------ bounds

\* Longest input line over the whole alphabet.
MaxLen == 6
\* Longest content of the quoted region of an `echo Q` line.
MaxContent == 5
\* Longest pipeline handed to execute_command.
MaxStages == 3
\* Most lines readline returns in one run of main.
MaxLines == 2

\* -------------------------------------------------------------- characters

SP == " "
PIPE == "|"
DQ == "\""
SQ == "'"

Letters == {"a", "b"}
Quotes == {DQ, SQ}
Whitespace == {SP}
Alphabet == Letters \cup Whitespace \cup {PIPE} \cup Quotes

\* char::is_whitespace
IsWhitespace(c) == c \in Whitespace

\* The built-ins' names, and the external programs of the model.
CD == <<"c", "d">>
PWD == <<"p", "w", "d">>
ECHO == <<"e", "c", "h", "o">>
LS == <<"l", "s">>
CAT == <<"c", "a", "t">>
NOSUCH == <<"n", "o">>

\* All strings over A of length at most n.
Strings(A, n) == UNION {[1..k -> A] : k \in 0..n}

\* ------------------------------------------------------------------ state

VARIABLES
    input,          \* the line handed to parse_input
    pos,            \* char_iter: index of the next unread character
    commands,       \* parse_input's `commands`
    current_parts,  \* parse_input's `current_parts`
    result,         \* parse_input's return value, "Pending" before it returns
    pipeline,       \* execute_command's `commands`
    cwd,            \* the process-wide current working directory
    cwd0,           \* the working directory when execute_command was called
    home,           \* the HOME variable: <<>> when unset, <<dir>> when set
    shell_out,      \* what the shell itself has written to standard output
    epc,            \* where execute_command is
    idx,            \* the stage the `for` loop is at (1-based)
    previous_stdout,\* Option<ChildStdout>: <<>> or <<k>>, stage k's captured stdout
    stdin_cfg,      \* the Stdio built for the stage's stdin, until the spawn
    processes,      \* Vec<Child>: the stages pushed for the later wait
    children,       \* every process spawned so far, in spawn order
    events,         \* the spawns, waits and directory changes so far, in order
    eresult,        \* execute_command's return value, "Pending" before
    mpc,            \* where main's loop is ("off" when main is not running)
    nread,          \* the lines readline has returned so far
    err_out,        \* the diagnostics written to the error stream
    exit_reason     \* why the loop was left, "" while it runs

pvars == <<input, pos, commands, current_parts, result>>
evars == <<pipeline, cwd, cwd0, home, shell_out, epc, idx, previous_stdout,
           stdin_cfg, processes, children, events, eresult>>
mvars == <<mpc, nread, err_out, exit_reason>>
vars == <<pvars, evars, mvars>>

Pending == [tag |-> "Pending", msg |-> ""]
Ok == [tag |-> "Ok", msg |-> ""]
ParseError(m) == [tag |-> "ParseError", msg |-> m]

\* execute_command's results: Ok(()), ShellError::CommandError with what
\* its message says (the kind of failure, the program and the exit code it
\* names), ShellError::Io.
ExecPending == [tag |-> "Pending", kind |-> "", program |-> <<>>, code |-> 0]
ExecOk == [tag |-> "Ok", kind |-> "", program |-> <<>>, code |-> 0]
CommandError(k, prog, c) ==
    [tag |-> "CommandError", kind |-> k, program |-> prog, code |-> c]
IoError == [tag |-> "Io", kind |-> "", program |-> <<>>, code |-> 0]

\* A Stdio handed to a spawn: inherited, or the read end of the pipe that
\* captures stage `from`'s stdout.  NoStdio: none built yet.
NoStdio == [kind |-> "none", from |-> 0]
Inherit == [kind |-> "inherit", from |-> 0]
FromPipe(k) == [kind |-> "pipe", from |-> k]

\* ------------------------------------------------------------ parse_token

\* skip_whitespace: the position of the first non-whitespace character at
\* or after p (Len(s) + 1 when there is none).
RECURSIVE skip_whitespace(_, _)
skip_whitespace(s, p) ==
    IF p <= Len(s) /\ IsWhitespace(s[p]) THEN skip_whitespace(s, p + 1) ELSE p

\* scan_char with two slips, each at one branch: the pipe symbol that ends
\* a non-empty token is consumed with it; any quote character closes a
\* quoted region.
scan_char_eats_pipe(c, token, in_quotes, quote_char) ==
    IF IsWhitespace(c) /\ ~in_quotes
    THEN [act |-> "break", eat |-> TRUE, token |-> token,
          in_quotes |-> in_quotes, quote_char |-> quote_char]
    ELSE IF c \in Quotes /\ ~in_quotes
    THEN [act |-> "next", eat |-> TRUE, token |-> token,
          in_quotes |-> TRUE, quote_char |-> c]
    ELSE IF c = quote_char /\ in_quotes
    THEN [act |-> "next", eat |-> TRUE, token |-> token,
          in_quotes |-> FALSE, quote_char |-> quote_char]
    ELSE IF c = PIPE /\ ~in_quotes
    THEN IF token = <<>>
         THEN [act |-> "pipe", eat |-> TRUE, token |-> token,
               in_quotes |-> in_quotes, quote_char |-> quote_char]
         ELSE [act |-> "break", eat |-> TRUE, token |-> token,
               in_quotes |-> in_quotes, quote_char |-> quote_char]
    ELSE [act |-> "next", eat |-> TRUE, token |-> Append(token, c),
          in_quotes |-> in_quotes, quote_char |-> quote_char]

scan_char_any_quote_closes(c, token, in_quotes, quote_char) ==
    IF IsWhitespace(c) /\ ~in_quotes
    THEN [act |-> "break", eat |-> TRUE, token |-> token,
          in_quotes |-> in_quotes, quote_char |-> quote_char]
    ELSE IF c \in Quotes /\ ~in_quotes
    THEN [act |-> "next", eat |-> TRUE, token |-> token,
          in_quotes |-> TRUE, quote_char |-> c]
    ELSE IF c \in Quotes /\ in_quotes
    THEN [act |-> "next", eat |-> TRUE, token |-> token,
          in_quotes |-> FALSE, quote_char |-> quote_char]
    ELSE IF c = PIPE /\ ~in_quotes
    THEN IF token = <<>>
         THEN [act |-> "pipe", eat |-> TRUE, token |-> token,
               in_quotes |-> in_quotes, quote_char |-> quote_char]
         ELSE [act |-> "break", eat |-> FALSE, token |-> token,
               in_quotes |-> in_quotes, quote_char |-> quote_char]
    ELSE [act |-> "next", eat |-> TRUE, token |-> Append(token, c),
          in_quotes |-> in_quotes, quote_char |-> quote_char]

\* One iteration of parse_token's `while let Some(&c) = chars.peek()`:
\* what the loop does with the peeked character c.  act is "next" (go on),
\* "break" or "pipe" (return Some("|")); eat says whether c is consumed.
scan_char(c, token, in_quotes, quote_char) ==
    IF IsWhitespace(c) /\ ~in_quotes
    THEN [act |-> "break", eat |-> TRUE, token |-> token,
          in_quotes |-> in_quotes, quote_char |-> quote_char]
    ELSE IF c \in Quotes /\ ~in_quotes
    THEN [act |-> "next", eat |-> TRUE, token |-> token,
          in_quotes |-> TRUE, quote_char |-> c]
    ELSE IF c = quote_char /\ in_quotes
    THEN [act |-> "next", eat |-> TRUE, token |-> token,
          in_quotes |-> FALSE, quote_char |-> quote_char]
    ELSE IF c = PIPE /\ ~in_quotes
    THEN IF token = <<>>
         THEN [act |-> "pipe", eat |-> TRUE, token |-> token,
               in_quotes |-> in_quotes, quote_char |-> quote_char]
         ELSE [act |-> "break", eat |-> FALSE, token |-> token,
               in_quotes |-> in_quotes, quote_char |-> quote_char]
    ELSE [act |-> "next", eat |-> TRUE, token |-> Append(token, c),
          in_quotes |-> in_quotes, quote_char |-> quote_char]

\* The whole while loop of parse_token from position p: how it was left
\* ("end" of input, "break" or "pipe"), the iterator's position, the token
\* and whether a quoted region is still open.
RECURSIVE scan_loop(_, _, _, _, _)
scan_loop(s, p, token, in_quotes, quote_char) ==
    IF p > Len(s)
    THEN [act |-> "end", pos |-> p, token |-> token, in_quotes |-> in_quotes]
    ELSE LET r == scan_char(s[p], token, in_quotes, quote_char)
             q == IF r.eat THEN p + 1 ELSE p
         IN IF r.act = "next"
            THEN scan_loop(s, q, r.token, r.in_quotes, r.quote_char)
            ELSE [act |-> r.act, pos |-> q, token |-> r.token,
                  in_quotes |-> r.in_quotes]

\* token_result without its last emptiness test: an empty token is
\* returned as a token.
token_result_keeps_empty(s, r) ==
    IF r.in_quotes
    THEN [kind |-> "Err", tok |-> <<>>, pos |-> r.pos]
    ELSE IF r.token = <<>> /\ r.pos <= Len(s) /\ s[r.pos] = PIPE
    THEN [kind |-> "Some", tok |-> <<PIPE>>, pos |-> r.pos + 1]
    ELSE [kind |-> "Some", tok |-> r.token, pos |-> r.pos]

\* The end of parse_token, after the loop: the unclosed-quote error, the
\* pipe that follows an empty token, the token, or None.
token_result(s, r) ==
    IF r.in_quotes
    THEN [kind |-> "Err", tok |-> <<>>, pos |-> r.pos]
    ELSE IF r.token = <<>> /\ r.pos <= Len(s) /\ s[r.pos] = PIPE
    THEN [kind |-> "Some", tok |-> <<PIPE>>, pos |-> r.pos + 1]
    ELSE IF r.token # <<>>
    THEN [kind |-> "Some", tok |-> r.token, pos |-> r.pos]
    ELSE [kind |-> "None", tok |-> <<>>, pos |-> r.pos]

\* parse_token on the iterator of s at position p: Ok(Some(tok)), Ok(None)
\* or Err, with the iterator's position afterwards.
parse_token(s, p) ==
    LET q == skip_whitespace(s, p) IN
    IF q > Len(s)
    THEN [kind |-> "None", tok |-> <<>>, pos |-> q]
    ELSE LET r == scan_loop(s, q, <<>>, FALSE, SP) IN
         IF r.act = "pipe"
         THEN [kind |-> "Some", tok |-> <<PIPE>>, pos |-> r.pos]
         ELSE token_result(s, r)

\* ------------------------------------------------------------ parse_input

\* create_command_from_parts, on a non-empty parts list.
create_command_from_parts(parts) ==
    [program |-> parts[1], args |-> Tail(parts)]

\* parse_input after the token loop: the last command, then the result.
final_commands(cmds, parts) ==
    IF parts # <<>> THEN Append(cmds, create_command_from_parts(parts)) ELSE cmds

\* final_result without the commands.is_empty() test.
final_result_unchecked(cmds) == Ok

\* parse_input's result: no command at all is an error.
final_result(cmds) ==
    IF cmds = <<>> THEN ParseError("no valid command found") ELSE Ok

\* The lines parse_input is run on: every line over the alphabet up to
\* MaxLen characters, and the lines `echo Q` with Q a quoted region.
EchoInputs ==
    {ECHO \o <<SP, q>> \o c \o <<q>> :
        q \in Quotes, c \in Strings(Alphabet, MaxContent)}

\* Lines that end in two adjacent pipe symbols.
DoubledPipeInputs ==
    {s \o <<PIPE, PIPE>> : s \in Strings(Alphabet, MaxLen)}

Inputs == Strings(Alphabet, MaxLen) \cup EchoInputs \cup DoubledPipeInputs

\* The executor at rest: no pipeline, nothing spawned.
ExecIdle ==
    /\ pipeline = <<>>
    /\ cwd = <<"/">>
    /\ cwd0 = <<"/">>
    /\ home = <<>>
    /\ shell_out = <<>>
    /\ epc = "idle"
    /\ idx = 1
    /\ previous_stdout = <<>>
    /\ stdin_cfg = NoStdio
    /\ processes = <<>>
    /\ children = <<>>
    /\ events = <<>>
    /\ eresult = ExecPending

\* main is not running.
MainOff ==
    /\ mpc = "off"
    /\ nread = 0
    /\ err_out = <<>>
    /\ exit_reason = ""

Init ==
    /\ input \in Inputs
    /\ pos = 1
    /\ commands = <<>>
    /\ current_parts = <<>>
    /\ result = Pending
    /\ ExecIdle
    /\ MainOff

\* parse_token fails: `?` returns its error.
TokenError ==
    /\ result = Pending
    /\ LET t == parse_token(input, pos) IN
       /\ t.kind = "Err"
       /\ pos' = t.pos
       /\ result' = ParseError("unclosed quote")
    /\ UNCHANGED <<input, commands, current_parts, evars, mvars>>

\* part == "|" with an empty current_parts.
PipeNoCommand ==
    /\ result = Pending
    /\ LET t == parse_token(input, pos) IN
       /\ t.kind = "Some"
       /\ t.tok = <<PIPE>>
       /\ current_parts = <<>>
       /\ pos' = t.pos
       /\ result' = ParseError("pipe with no preceding command")
    /\ UNCHANGED <<input, commands, current_parts, evars, mvars>>

\* part == "|": the current parts become a command.
PipeFlush ==
    /\ result = Pending
    /\ LET t == parse_token(input, pos) IN
       /\ t.kind = "Some"
       /\ t.tok = <<PIPE>>
       /\ current_parts # <<>>
       /\ pos' = t.pos
       /\ commands' = Append(commands, create_command_from_parts(current_parts))
       /\ current_parts' = <<>>
    /\ UNCHANGED <<input, result, evars, mvars>>

\* Any other part is pushed.
PushPart ==
    /\ result = Pending
    /\ LET t == parse_token(input, pos) IN
       /\ t.kind = "Some"
       /\ t.tok # <<PIPE>>
       /\ pos' = t.pos
       /\ current_parts' = Append(current_parts, t.tok)
    /\ UNCHANGED <<input, commands, result, evars, mvars>>

\* parse_token returns None: the loop ends and parse_input returns.
Finish ==
    /\ result = Pending
    /\ LET t == parse_token(input, pos) IN
       /\ t.kind = "None"
       /\ pos' = t.pos
       /\ commands' = final_commands(commands, current_parts)
       /\ result' = final_result(final_commands(commands, current_parts))
    /\ UNCHANGED <<input, current_parts, evars, mvars>>

Next ==
    \/ TokenError
    \/ PipeNoCommand
    \/ PipeFlush
    \/ PushPart
    \/ Finish

Spec == Init /\ [][Next]_vars

\* --------------------------------------------------------- the environment

\* The directories of the file system: ROOT and TMP exist, NODIR does not.
ROOT == <<"/">>
TMP == <<"/", "t">>
NODIR == <<"/", "x">>
ExistingDirs == {ROOT, TMP}

\* The programs a spawn finds.
Executables == {LS, CAT}

\* How a child can end: exit code 0, exit code 1, or killed by a signal
\* (no exit code).
ExitStatuses == {"0", "1", "signal"}

\* exit_code with the signal case taken for a clean exit: unwrap_or(0).
exit_code_signal_zero(st) == IF st = "1" THEN 1 ELSE 0

\* status.code().unwrap_or(-1)
exit_code(st) == IF st = "0" THEN 0 ELSE IF st = "1" THEN 1 ELSE -1

Cmd(prog, args) == [program |-> prog, args |-> args]

\* The commands the pipelines of the model are made of.
CommandPool ==
    {Cmd(CD, <<>>), Cmd(CD, <<TMP>>), Cmd(CD, <<NODIR>>), Cmd(PWD, <<>>),
     Cmd(ECHO, <<>>), Cmd(ECHO, <<<<"a">>, <<"b">>>>),
     Cmd(LS, <<>>), Cmd(CAT, <<>>), Cmd(NOSUCH, <<>>)}

Pipelines == UNION {[1..n -> CommandPool] : n \in 0..MaxStages}

\* -------------------------------------------------------- execute_builtin

\* join that puts nothing between the arguments.
RECURSIVE join_no_separator(_)
join_no_separator(args) ==
    IF args = <<>> THEN <<>>
    ELSE args[1] \o join_no_separator(Tail(args))

\* args.join(" ")
RECURSIVE join(_)
join(args) ==
    IF args = <<>> THEN <<>>
    ELSE IF Len(args) = 1 THEN args[1]
    ELSE args[1] \o <<SP>> \o join(Tail(args))

\* println!: the text and a newline, as one write to standard output.
println(out, text) == Append(out, text \o <<"\n">>)

is_builtin(prog) == prog \in {CD, PWD, ECHO}

\* execute_builtin where bare cd with HOME unset goes to the root directory
\* instead of failing.
execute_builtin_home_default(cmd, dir, homev, out, query_ok) ==
    IF cmd.program = CD
    THEN LET new_dir == IF cmd.args # <<>> THEN cmd.args[1]
                        ELSE IF homev # <<>> THEN homev[1] ELSE ROOT
         IN IF new_dir \in ExistingDirs
            THEN [ret |-> "true", err |-> ExecOk, cwd |-> new_dir,
                  out |-> out, chdir |-> TRUE]
            ELSE [ret |-> "err", err |-> IoError, cwd |-> dir,
                  out |-> out, chdir |-> TRUE]
    ELSE IF cmd.program = PWD
    THEN IF query_ok
         THEN [ret |-> "true", err |-> ExecOk, cwd |-> dir,
               out |-> println(out, dir), chdir |-> FALSE]
         ELSE [ret |-> "err", err |-> IoError, cwd |-> dir, out |-> out,
               chdir |-> FALSE]
    ELSE IF cmd.program = ECHO
    THEN [ret |-> "true", err |-> ExecOk, cwd |-> dir,
          out |-> println(out, join(cmd.args)), chdir |-> FALSE]
    ELSE [ret |-> "false", err |-> ExecOk, cwd |-> dir, out |-> out,
          chdir |-> FALSE]

\* execute_builtin(cmd) with the working directory dir, HOME homev and the
\* shell's output so far; query_ok says whether env::current_dir() succeeds.
\* ret is "true" (Ok(true): a built-in, and it ran), "false" (Ok(false))
\* or "err" (Err(err)); cwd and out are the directory and output afterwards,
\* chdir says whether env::set_current_dir was called.
execute_builtin(cmd, dir, homev, out, query_ok) ==
    IF cmd.program = CD
    THEN IF cmd.args = <<>> /\ homev = <<>>
         THEN [ret |-> "err", err |-> CommandError("HOME unknown", <<>>, 0),
               cwd |-> dir, out |-> out, chdir |-> FALSE]
         ELSE LET new_dir == IF cmd.args # <<>> THEN cmd.args[1] ELSE homev[1]
              IN IF new_dir \in ExistingDirs
                 THEN [ret |-> "true", err |-> ExecOk, cwd |-> new_dir,
                       out |-> out, chdir |-> TRUE]
                 ELSE [ret |-> "err", err |-> IoError, cwd |-> dir,
                       out |-> out, chdir |-> TRUE]
    ELSE IF cmd.program = PWD
    THEN IF query_ok
         THEN [ret |-> "true", err |-> ExecOk, cwd |-> dir,
               out |-> println(out, dir), chdir |-> FALSE]
         ELSE [ret |-> "err", err |-> IoError, cwd |-> dir, out |-> out,
               chdir |-> FALSE]
    ELSE IF cmd.program = ECHO
    THEN [ret |-> "true", err |-> ExecOk, cwd |-> dir,
          out |-> println(out, join(cmd.args)), chdir |-> FALSE]
    ELSE [ret |-> "false", err |-> ExecOk, cwd |-> dir, out |-> out,
          chdir |-> FALSE]

\* ------------------------------------------------- execute_piped_commands

\* A spawned process: its stage, its program, its streams, and "running"
\* or the status it ended with.
Child(stage, prog, in, out) ==
    [stage |-> stage, program |-> prog, stdin |-> in, stdout |-> out,
     status |-> "running"]

\* The pipelines execute_command is run on, in every environment.
ExecInit ==
    /\ pipeline \in Pipelines
    /\ cwd \in ExistingDirs
    /\ cwd0 = cwd
    /\ home \in {<<>>, <<TMP>>, <<NODIR>>}
    /\ shell_out = <<>>
    /\ epc = "call"
    /\ idx = 1
    /\ previous_stdout = <<>>
    /\ stdin_cfg = NoStdio
    /\ processes = <<>>
    /\ children = <<>>
    /\ events = <<>>
    /\ eresult = ExecPending
    /\ input = <<>>
    /\ pos = 1
    /\ commands = <<>>
    /\ current_parts = <<>>
    /\ result = Pending
    /\ MainOff

\* execute_piped_commands returns r: its locals are dropped with it.
Return(r) ==
    /\ eresult' = r
    /\ epc' = "done"
    /\ previous_stdout' = <<>>
    /\ stdin_cfg' = NoStdio
    /\ processes' = <<>>

\* commands.is_empty(): Ok(()).
ExecEmpty ==
    /\ epc = "call"
    /\ pipeline = <<>>
    /\ Return(ExecOk)
    /\ UNCHANGED <<pipeline, cwd, cwd0, home, shell_out, idx, children, events, pvars, mvars>>

\* execute_single_command, the command a built-in: it runs in the shell.
SingleBuiltin ==
    /\ epc = "call"
    /\ Len(pipeline) = 1
    /\ is_builtin(pipeline[1].program)
    /\ \E query_ok \in BOOLEAN :
          LET r == execute_builtin(pipeline[1], cwd, home, shell_out, query_ok) IN
          /\ cwd' = r.cwd
          /\ shell_out' = r.out
          /\ events' = IF r.chdir THEN Append(events, <<"chdir", 0>>) ELSE events
          /\ Return(IF r.ret = "err" THEN r.err ELSE ExecOk)
    /\ UNCHANGED <<pipeline, cwd0, home, idx, children, pvars, mvars>>

\* execute_single_command, execute_external succeeds: the child has the
\* shell's streams.
SingleSpawn ==
    /\ epc = "call"
    /\ Len(pipeline) = 1
    /\ ~is_builtin(pipeline[1].program)
    /\ pipeline[1].program \in Executables
    /\ children' = Append(children, Child(1, pipeline[1].program, Inherit, "inherit"))
    /\ events' = Append(events, <<"spawn", 1>>)
    /\ epc' = "single_wait"
    /\ UNCHANGED <<pipeline, cwd, cwd0, home, shell_out, idx, previous_stdout,
                   stdin_cfg, processes, eresult, pvars, mvars>>

\* execute_single_command, execute_external fails.
SingleSpawnFail ==
    /\ epc = "call"
    /\ Len(pipeline) = 1
    /\ ~is_builtin(pipeline[1].program)
    /\ pipeline[1].program \notin Executables
    /\ Return(CommandError("cannot execute", pipeline[1].program, 0))
    /\ UNCHANGED <<pipeline, cwd, cwd0, home, shell_out, idx, children, events, pvars, mvars>>

\* SingleWait that returns Ok whatever the exit status.
SingleWait_ignores_status ==
    /\ epc = "single_wait"
    /\ children[1].status # "running"
    /\ events' = Append(events, <<"wait", 1>>)
    /\ Return(ExecOk)
    /\ UNCHANGED <<pipeline, cwd, cwd0, home, shell_out, idx, children, pvars, mvars>>

\* execute_single_command: child.wait() returns once the child has ended.
SingleWait ==
    /\ epc = "single_wait"
    /\ children[1].status # "running"
    /\ events' = Append(events, <<"wait", 1>>)
    /\ Return(IF children[1].status = "0" THEN ExecOk
              ELSE CommandError("exited", pipeline[1].program,
                                exit_code(children[1].status)))
    /\ UNCHANGED <<pipeline, cwd, cwd0, home, shell_out, idx, children, pvars, mvars>>

\* Two commands or more: the `for` loop starts.
StartPipeline ==
    /\ epc = "call"
    /\ Len(pipeline) >= 2
    /\ previous_stdout' = <<>>
    /\ processes' = <<>>
    /\ idx' = 1
    /\ epc' = "loop"
    /\ UNCHANGED <<pipeline, cwd, cwd0, home, shell_out, stdin_cfg, children,
                   events, eresult, pvars, mvars>>

\* `if execute_builtin(cmd)? { return Err(..) }` on a built-in: it runs;
\* its error is returned by `?`, and otherwise the piping error is.
StageBuiltin ==
    /\ epc = "loop"
    /\ is_builtin(pipeline[idx].program)
    /\ \E query_ok \in BOOLEAN :
          LET r == execute_builtin(pipeline[idx], cwd, home, shell_out, query_ok) IN
          /\ cwd' = r.cwd
          /\ shell_out' = r.out
          /\ Return(IF r.ret = "err" THEN r.err
                    ELSE CommandError("built-in commands do not support piping",
                                      <<>>, 0))
          /\ events' = IF r.chdir THEN Append(events, <<"chdir", 0>>) ELSE events
    /\ UNCHANGED <<pipeline, cwd0, home, idx, children, pvars, mvars>>

\* StageConfigure that copies previous_stdout into the stage's stdin and
\* leaves it in its slot.
StageConfigure_keeps_previous ==
    /\ epc = "loop"
    /\ ~is_builtin(pipeline[idx].program)
    /\ stdin_cfg' = IF previous_stdout = <<>> THEN Inherit
                    ELSE FromPipe(previous_stdout[1])
    /\ epc' = "spawn"
    /\ UNCHANGED <<pipeline, cwd, cwd0, home, shell_out, idx, previous_stdout,
                   processes, children, events, eresult, pvars, mvars>>

\* Not a built-in: the stage's stdin is built, taking previous_stdout.
StageConfigure ==
    /\ epc = "loop"
    /\ ~is_builtin(pipeline[idx].program)
    /\ stdin_cfg' = IF previous_stdout = <<>> THEN Inherit
                    ELSE FromPipe(previous_stdout[1])
    /\ previous_stdout' = <<>>
    /\ epc' = "spawn"
    /\ UNCHANGED <<pipeline, cwd, cwd0, home, shell_out, idx, processes, children,
                   events, eresult, pvars, mvars>>

\* The spawn succeeds: the child takes the stdin built for it; a stage that
\* is not the last has its stdout captured and is pushed on `processes`.
StageSpawn ==
    /\ epc = "spawn"
    /\ pipeline[idx].program \in Executables
    /\ LET is_last == idx = Len(pipeline) IN
       /\ children' = Append(children,
              Child(idx, pipeline[idx].program, stdin_cfg,
                    IF is_last THEN "inherit" ELSE "piped"))
       /\ events' = Append(events, <<"spawn", idx>>)
       /\ stdin_cfg' = NoStdio
       /\ previous_stdout' = IF is_last THEN <<>> ELSE <<idx>>
       /\ IF is_last
          THEN /\ epc' = "last_wait"
               /\ UNCHANGED <<processes, idx>>
          ELSE /\ processes' = Append(processes, idx)
               /\ idx' = idx + 1
               /\ epc' = "loop"
    /\ UNCHANGED <<pipeline, cwd, cwd0, home, shell_out, eresult, pvars, mvars>>

\* StageSpawnFail with the failure passed over: the loop goes on to the
\* next stage, and only a failure of the last stage is returned.
StageSpawnFail_skips ==
    /\ epc = "spawn"
    /\ pipeline[idx].program \notin Executables
    /\ IF idx = Len(pipeline)
       THEN /\ Return(CommandError("cannot execute", pipeline[idx].program, 0))
            /\ UNCHANGED idx
       ELSE /\ idx' = idx + 1
            /\ epc' = "loop"
            /\ stdin_cfg' = NoStdio
            /\ UNCHANGED <<eresult, previous_stdout, processes>>
    /\ UNCHANGED <<pipeline, cwd, cwd0, home, shell_out, children, events, pvars, mvars>>

\* The spawn fails: `?` returns the error.
StageSpawnFail ==
    /\ epc = "spawn"
    /\ pipeline[idx].program \notin Executables
    /\ Return(CommandError("cannot execute", pipeline[idx].program, 0))
    /\ UNCHANGED <<pipeline, cwd, cwd0, home, shell_out, idx, children, events, pvars, mvars>>

\* The last stage is waited on as soon as it is spawned.
LastWait ==
    /\ epc = "last_wait"
    /\ children[idx].status # "running"
    /\ events' = Append(events, <<"wait", idx>>)
    /\ IF children[idx].status = "0"
       THEN /\ epc' = "wait_rest"
            /\ UNCHANGED <<eresult, previous_stdout, stdin_cfg, processes>>
       ELSE Return(CommandError("exited", pipeline[idx].program,
                                exit_code(children[idx].status)))
    /\ UNCHANGED <<pipeline, cwd, cwd0, home, shell_out, idx, children, pvars, mvars>>

\* WaitRest taking the pushed stages from the end of `processes`.
WaitRest_from_end ==
    /\ epc = "wait_rest"
    /\ processes # <<>>
    /\ LET k == processes[Len(processes)] IN
       /\ children[k].status # "running"
       /\ events' = Append(events, <<"wait", k>>)
       /\ IF children[k].status = "0"
          THEN /\ processes' = SubSeq(processes, 1, Len(processes) - 1)
               /\ UNCHANGED <<eresult, epc, previous_stdout, stdin_cfg>>
          ELSE Return(CommandError("a command in the pipeline failed", <<>>, 0))
    /\ UNCHANGED <<pipeline, cwd, cwd0, home, shell_out, idx, children, pvars, mvars>>

\* `for mut process in processes`: the next pushed stage is waited on.
WaitRest ==
    /\ epc = "wait_rest"
    /\ processes # <<>>
    /\ children[Head(processes)].status # "running"
    /\ events' = Append(events, <<"wait", Head(processes)>>)
    /\ IF children[Head(processes)].status = "0"
       THEN /\ processes' = Tail(processes)
            /\ UNCHANGED <<eresult, epc, previous_stdout, stdin_cfg>>
       ELSE Return(CommandError("a command in the pipeline failed", <<>>, 0))
    /\ UNCHANGED <<pipeline, cwd, cwd0, home, shell_out, idx, children, pvars, mvars>>

\* ReturnOk that does not look at `processes`: Ok(()) with stages still to
\* be waited on.
ReturnOk_without_waiting ==
    /\ epc = "wait_rest"
    /\ Return(ExecOk)
    /\ UNCHANGED <<pipeline, cwd, cwd0, home, shell_out, idx, children, events, pvars, mvars>>

\* Every pushed stage has been waited on: Ok(()).
ReturnOk ==
    /\ epc = "wait_rest"
    /\ processes = <<>>
    /\ Return(ExecOk)
    /\ UNCHANGED <<pipeline, cwd, cwd0, home, shell_out, idx, children, events, pvars, mvars>>

\* The operating system: a running child ends, with some status.
ChildExit ==
    /\ \E k \in 1..Len(children), st \in ExitStatuses :
          /\ children[k].status = "running"
          /\ children' = [children EXCEPT ![k].status = st]
    /\ UNCHANGED <<pipeline, cwd, cwd0, home, shell_out, epc, idx, previous_stdout,
                   stdin_cfg, processes, events, eresult, pvars, mvars>>

ExecNext ==
    \/ ExecEmpty
    \/ SingleBuiltin
    \/ SingleSpawn
    \/ SingleSpawnFail
    \/ SingleWait
    \/ StartPipeline
    \/ StageBuiltin
    \/ StageConfigure
    \/ StageSpawn
    \/ StageSpawnFail
    \/ LastWait
    \/ WaitRest
    \/ ReturnOk
    \/ ChildExit

ExecSpec == ExecInit /\ [][ExecNext]_vars

\* The shell's own steps: everything but the children's exits.
ShellStep ==
    \/ ExecEmpty
    \/ SingleBuiltin
    \/ SingleSpawn
    \/ SingleSpawnFail
    \/ SingleWait
    \/ StartPipeline
    \/ StageBuiltin
    \/ StageConfigure
    \/ StageSpawn
    \/ StageSpawnFail
    \/ LastWait
    \/ WaitRest
    \/ ReturnOk

\* The executor with its scheduling: the shell's single thread keeps running
\* whenever it is not blocked in a wait, and every spawned process ends.
ExecFairSpec ==
    /\ ExecInit
    /\ [][ExecNext]_vars
    /\ WF_vars(ShellStep)
    /\ WF_vars(ChildExit)

\* ------------------------------------------------------------ main's loop

EXIT == <<"e", "x", "i", "t">>

\* str::trim: the string without its leading and trailing whitespace.
RECURSIVE trim_start(_)
trim_start(s) ==
    IF s # <<>> /\ IsWhitespace(Head(s)) THEN trim_start(Tail(s)) ELSE s

RECURSIVE trim_end(_)
trim_end(s) ==
    IF s # <<>> /\ IsWhitespace(s[Len(s)])
    THEN trim_end(SubSeq(s, 1, Len(s) - 1))
    ELSE s

trim(s) == trim_end(trim_start(s))

\* The lines readline returns: blank ones, the exit keyword, lines parse_input
\* rejects, lines whose execution fails, and lines that run.
MainLines ==
    { <<>>, <<SP>>, EXIT, <<SP>> \o EXIT \o <<SP>>,
      <<PIPE>>, <<SQ, "a">>,
      NOSUCH, CD \o <<SP>> \o NODIR, CD \o <<SP>> \o TMP,
      LS, ECHO \o <<SP, "a">>,
      LS \o <<PIPE>> \o CAT, PWD \o <<PIPE>> \o CAT, LS \o <<PIPE>> \o NOSUCH }

\* main before its loop: nothing read, nothing parsed, nothing run.
MainInit ==
    /\ mpc = "prompt"
    /\ nread = 0
    /\ err_out = <<>>
    /\ exit_reason = ""
    /\ input = <<>>
    /\ pos = 1
    /\ commands = <<>>
    /\ current_parts = <<>>
    /\ result = Pending
    /\ pipeline = <<>>
    /\ cwd \in ExistingDirs
    /\ cwd0 = cwd
    /\ home \in {<<>>, <<TMP>>}
    /\ shell_out = <<>>
    /\ epc = "idle"
    /\ idx = 1
    /\ previous_stdout = <<>>
    /\ stdin_cfg = NoStdio
    /\ processes = <<>>
    /\ children = <<>>
    /\ events = <<>>
    /\ eresult = ExecPending

\* The loop is left: by `break`, or by main returning.
Leave(why) ==
    /\ mpc' = "exited"
    /\ exit_reason' = why

\* The top of the loop: env::current_dir()? for the prompt.  The query fails
\* when the working directory cannot be determined, and `?` returns from main.
MainPrompt ==
    /\ mpc = "prompt"
    /\ \E query_ok \in BOOLEAN :
          IF query_ok
          THEN mpc' = "read" /\ UNCHANGED exit_reason
          ELSE Leave("current_dir error")
    /\ UNCHANGED <<nread, err_out, pvars, evars>>

\* readline returns a line that is empty once trimmed: `continue`.
ReadBlank ==
    /\ mpc = "read"
    /\ nread < MaxLines
    /\ \E line \in MainLines : trim(line) = <<>>
    /\ nread' = nread + 1
    /\ mpc' = "prompt"
    /\ UNCHANGED <<err_out, exit_reason, pvars, evars>>

\* readline returns the exit keyword: `break`.
ReadExit ==
    /\ mpc = "read"
    /\ nread < MaxLines
    /\ \E line \in MainLines : trim(line) # <<>> /\ trim(line) = EXIT
    /\ nread' = nread + 1
    /\ Leave("exit")
    /\ UNCHANGED <<err_out, pvars, evars>>

\* readline returns any other line: parse_input is called on it.
ReadCommand ==
    /\ mpc = "read"
    /\ nread < MaxLines
    /\ \E line \in MainLines :
          /\ trim(line) # <<>>
          /\ trim(line) # EXIT
          /\ input' = line
    /\ pos' = 1
    /\ commands' = <<>>
    /\ current_parts' = <<>>
    /\ result' = Pending
    /\ nread' = nread + 1
    /\ mpc' = "parse"
    /\ UNCHANGED <<err_out, exit_reason, evars>>

\* ReadlineError::Interrupted: `continue`.
ReadInterrupted ==
    /\ mpc = "read"
    /\ mpc' = "prompt"
    /\ UNCHANGED <<nread, err_out, exit_reason, pvars, evars>>

\* ReadlineError::Eof: `break`.
ReadEof ==
    /\ mpc = "read"
    /\ Leave("eof")
    /\ UNCHANGED <<nread, err_out, pvars, evars>>

\* Any other ReadlineError: `break`.
ReadError ==
    /\ mpc = "read"
    /\ Leave("readline error")
    /\ UNCHANGED <<nread, err_out, pvars, evars>>

\* parse_input at work on the line.
MainParse ==
    /\ mpc = "parse"
    /\ Next

\* parse_input returned Err(e): the diagnostic, then the next turn of the loop.
MainParseError ==
    /\ mpc = "parse"
    /\ result.tag = "ParseError"
    /\ err_out' = Append(err_out, <<"parse error", result.msg>>)
    /\ mpc' = "prompt"
    /\ UNCHANGED <<nread, exit_reason, pvars, evars>>

\* parse_input returned Ok(commands): execute_command is called on them.
MainExecute ==
    /\ mpc = "parse"
    /\ result = Ok
    /\ pipeline' = commands
    /\ cwd0' = cwd
    /\ epc' = "call"
    /\ idx' = 1
    /\ previous_stdout' = <<>>
    /\ stdin_cfg' = NoStdio
    /\ processes' = <<>>
    /\ children' = <<>>
    /\ events' = <<>>
    /\ eresult' = ExecPending
    /\ mpc' = "exec"
    /\ UNCHANGED <<cwd, home, shell_out, nread, err_out, exit_reason, pvars>>

\* execute_command at work; parse_input never returns Ok with no command, so
\* the empty pipeline is not among its cases here.
MainExec ==
    /\ mpc = "exec"
    /\ \/ SingleBuiltin
       \/ SingleSpawn
       \/ SingleSpawnFail
       \/ SingleWait
       \/ StartPipeline
       \/ StageBuiltin
       \/ StageConfigure
       \/ StageSpawn
       \/ StageSpawnFail
       \/ LastWait
       \/ WaitRest
       \/ ReturnOk
       \/ ChildExit

\* execute_command returned: the diagnostic if it is an Err, then the next
\* turn of the loop.
MainExecReturned ==
    /\ mpc = "exec"
    /\ epc = "done"
    /\ err_out' = IF eresult = ExecOk
                  THEN err_out
                  ELSE Append(err_out, <<"error", eresult.tag>>)
    /\ mpc' = "prompt"
    /\ UNCHANGED <<nread, exit_reason, pvars, evars>>

MainNext ==
    \/ MainPrompt
    \/ ReadBlank
    \/ ReadExit
    \/ ReadCommand
    \/ ReadInterrupted
    \/ ReadEof
    \/ ReadError
    \/ MainParse
    \/ MainParseError
    \/ MainExecute
    \/ MainExec
    \/ MainExecReturned

MainSpec == MainInit /\ [][MainNext]_vars

\* ------------------------------------------------- the claims' vocabulary

\* parse_input has returned.
Returned == result # Pending

\* The quoting rule of the specification, read off the input alone: the
\* open quote character after the first i characters of s ("" for none).
RECURSIVE QuoteState(_, _)
QuoteState(s, i) ==
    IF i = 0 THEN ""
    ELSE LET q == QuoteState(s, i - 1) IN
         IF q = "" THEN (IF s[i] \in Quotes THEN s[i] ELSE "")
         ELSE IF s[i] = q THEN "" ELSE q

\* Character i of s is a pipe symbol outside every quoted region.
UnquotedPipeAt(s, i) == s[i] = PIPE /\ QuoteState(s, i - 1) = ""

HasUnquotedPipe(s) == \E i \in 1..Len(s) : UnquotedPipeAt(s, i)

\* The quoted regions of s that are closed: <<i, j>> with the delimiters
\* at i and j.
QuotedRegions(s) ==
    {r \in (1..Len(s)) \X (1..Len(s)) :
        /\ r[1] < r[2]
        /\ QuoteState(s, r[1] - 1) = ""
        /\ s[r[1]] \in Quotes
        /\ s[r[2]] = s[r[1]]
        /\ \A k \in (r[1] + 1)..(r[2] - 1) : s[k] # s[r[1]]}

\* t occurs in u as a contiguous run of characters.
OccursIn(t, u) ==
    \E k \in 0..(Len(u) - Len(t)) : SubSeq(u, k + 1, k + Len(t)) = t

\* The words of a command: its program, then its arguments.
Words(cmd) == <<cmd.program>> \o cmd.args

AllWhitespace(s) == \A i \in 1..Len(s) : IsWhitespace(s[i])

\* ------------------------------------------------------------------ C1

\* C1: an input with no pipe symbol outside a quoted region, when it
\* parses, gives exactly one Command, and the content of every quoted
\* region appears unchanged inside one word of that Command.
C1_QuotedPipeIsLiteral ==
    (result = Ok /\ ~HasUnquotedPipe(input)) =>
        /\ Len(commands) = 1
        /\ \A r \in QuotedRegions(input) :
              \E w \in 1..Len(Words(commands[1])) :
                  OccursIn(SubSeq(input, r[1] + 1, r[2] - 1),
                           Words(commands[1])[w])

\* ------------------------------------------------------------------ C2

\* The last non-whitespace character of s is a pipe symbol outside quotes.
EndsWithUnquotedPipe(s) ==
    \E i \in 1..Len(s) :
        /\ UnquotedPipeAt(s, i)
        /\ \A k \in (i + 1)..Len(s) : IsWhitespace(s[k])

\* C2: an input whose last non-whitespace character is an unquoted pipe
\* symbol is a parse error, never a pipeline.
C2_TrailingPipeIsError ==
    (Returned /\ EndsWithUnquotedPipe(input)) => result.tag = "ParseError"

\* ------------------------------------------------------------------ C3

\* execute_command has returned for a pipeline of two stages or more, one
\* of them a built-in.
ReturnedWithBuiltinStage ==
    /\ epc = "done"
    /\ Len(pipeline) >= 2
    /\ \E k \in 1..Len(pipeline) : is_builtin(pipeline[k].program)

\* C3: a pipeline of length >= 2 with a built-in stage returns the
\* CommandError "built-in commands do not support piping", whatever the
\* arguments and the environment, never an I/O error or another
\* CommandError.
C3_BuiltinStageIsPipingError ==
    ReturnedWithBuiltinStage =>
        eresult = CommandError("built-in commands do not support piping", <<>>, 0)

\* ------------------------------------------------------------------ C4

\* C4: a built-in stage of a pipeline of length >= 2 is rejected, not run:
\* when execute_command returns, the working directory is the one before
\* the call and the shell has written nothing to standard output.
C4_BuiltinStageIsNotRun ==
    ReturnedWithBuiltinStage => (cwd = cwd0 /\ shell_out = <<>>)

\* ------------------------------------------------------------------ C5

\* C5: an input in which a quoted region is still open at the end of the
\* input is a parse error, whatever precedes the unclosed quote.
C5_UnclosedQuoteIsError ==
    (Returned /\ QuoteState(input, Len(input)) # "") =>
        result.tag = "ParseError"

\* ------------------------------------------------------------------ C6

\* s without its leading and trailing whitespace.
RECURSIVE Trim(_)
Trim(s) ==
    IF s = <<>> THEN s
    ELSE IF IsWhitespace(Head(s)) THEN Trim(Tail(s))
    ELSE IF IsWhitespace(s[Len(s)]) THEN Trim(SubSeq(s, 1, Len(s) - 1))
    ELSE s

\* The pieces of s between its pipe symbols.
RECURSIVE SplitOnPipe(_, _)
SplitOnPipe(s, piece) ==
    IF s = <<>> THEN <<piece>>
    ELSE IF Head(s) = PIPE THEN <<piece>> \o SplitOnPipe(Tail(s), <<>>)
    ELSE SplitOnPipe(Tail(s), Append(piece, Head(s)))

\* The stage names of s when s is stage names separated by pipe symbols
\* with any whitespace around them.
StageNames(s) ==
    LET pieces == SplitOnPipe(s, <<>>) IN
    [k \in 1..Len(pieces) |-> Trim(pieces[k])]

IsStageLine(s) ==
    /\ \A i \in 1..Len(s) : s[i] \in Letters \cup Whitespace \cup {PIPE}
    /\ \A k \in 1..Len(StageNames(s)) :
          /\ StageNames(s)[k] # <<>>
          /\ \A i \in 1..Len(StageNames(s)[k]) : StageNames(s)[k][i] \in Letters

\* C6: n >= 1 alphanumeric stage names separated by unquoted pipe symbols,
\* with any whitespace around each pipe, parse to exactly n Commands, the
\* i-th with the i-th name as its program and no arguments.
C6_StageLineParses ==
    (Returned /\ IsStageLine(input)) =>
        /\ result = Ok
        /\ Len(commands) = Len(StageNames(input))
        /\ \A k \in 1..Len(commands) :
              /\ commands[k].program = StageNames(input)[k]
              /\ commands[k].args = <<>>

\* Three stages, with and without whitespace around the pipes.
C6_Witness ==
    /\ result = Ok
    /\ input = <<"a", SP, PIPE, "b", PIPE, "a">>
    /\ Len(commands) = 3

\* ------------------------------------------------------------------ C7

\* C7: an input of whitespace only, the empty input included, is the
\* parse error "no valid command found".
C7_WhitespaceIsError ==
    (Returned /\ AllWhitespace(input)) =>
        result = ParseError("no valid command found")

C7_Witness ==
    /\ Returned
    /\ input = <<SP, SP>>
    /\ result.tag = "ParseError"

\* ------------------------------------------------------------------ C8

\* s starts, after optional whitespace, with an unquoted pipe symbol (the
\* lone pipe is the case where nothing follows it).
StartsWithPipe(s) ==
    \E i \in 1..Len(s) :
        /\ s[i] = PIPE
        /\ \A k \in 1..(i - 1) : IsWhitespace(s[k])

\* s has two unquoted pipe symbols with only whitespace between them.
HasDoubledPipe(s) ==
    \E i, j \in 1..Len(s) :
        /\ i < j
        /\ UnquotedPipeAt(s, i)
        /\ UnquotedPipeAt(s, j)
        /\ \A k \in (i + 1)..(j - 1) : IsWhitespace(s[k])

\* C8: an input that starts with an unquoted pipe symbol, or that has two
\* unquoted pipe symbols with only whitespace between them, is a parse
\* error.
C8_PipeWithoutCommandIsError ==
    (Returned /\ (StartsWithPipe(input) \/ HasDoubledPipe(input))) =>
        result.tag = "ParseError"

\* ------------------------------------------------------------------ C9

\* s is `echo Q`, Q a region quoted by q with content c: c is not empty,
\* is not the single pipe symbol and does not hold q.
IsEchoQuoted(s, q, c) ==
    /\ s = ECHO \o <<SP, q>> \o c \o <<q>>
    /\ c # <<>>
    /\ c # <<PIPE>>
    /\ \A i \in 1..Len(c) : c[i] # q

\* C9: `echo Q` parses to one Command, program echo, with the content of
\* Q as its only argument, character for character; the other quote
\* character inside Q is kept and does not close the region.
C9_QuotedTextIsOneToken ==
    Returned =>
        \A q \in Quotes :
            LET n == Len(ECHO) + 2
                c == SubSeq(input, n + 1, Len(input) - 1)
            IN (Len(input) > n + 1 /\ IsEchoQuoted(input, q, c)) =>
                  /\ result = Ok
                  /\ commands = <<[program |-> ECHO, args |-> <<c>>]>>

\* echo "a|b 'c": pipe, whitespace and the other quote character inside.
C9_Witness ==
    /\ result = Ok
    /\ input = ECHO \o <<SP, DQ, "a", PIPE, SP, SQ, "b", DQ>>
    /\ Len(commands) = 1

\* ------------------------------------------------------------------ C10

\* C10: a successful parse holds at least one Command, and no Command of
\* it has an empty program.
C10_ResultWellFormed ==
    result = Ok =>
        /\ Len(commands) >= 1
        /\ \A k \in 1..Len(commands) : commands[k].program # <<>>

\* A successful parse of two stages, the second with a quoted argument.
C10_Witness ==
    /\ result = Ok
    /\ Len(commands) = 2
    /\ commands[2].args # <<>>

\* ------------------------------------------- the executor claims' vocabulary

ExecReturned == epc = "done"

\* Every stage of p is an external command.
AllExternal(p) == \A k \in 1..Len(p) : ~is_builtin(p[k].program)

\* The stages of p whose spawn fails.
Unspawnable(p) == {k \in 1..Len(p) : p[k].program \notin Executables}

\* The least element of a non-empty set of numbers.
Least(S) == CHOOSE k \in S : \A j \in S : k <= j

\* The events of one kind, in order.
EventsOf(kind) == SelectSeq(events, LAMBDA e : e[1] = kind)

\* <<kind, a>>, <<kind, a + 1>>, ..., <<kind, b>>.
EventRun(kind, a, b) == [k \in 1..(b - a + 1) |-> <<kind, a + k - 1>>]

\* The shell is blocked in a wait().
AtWait == epc \in {"single_wait", "last_wait", "wait_rest"}

\* ------------------------------------------------------------------ C11

\* C11: in a pipeline of external commands where the spawn of stage i
\* fails, execute_command returns the CommandError naming stage i's
\* program, exactly the stages before i have been spawned, and no process
\* is ever waited on: the shell is never in a wait().
C11_SpawnFailureAborts ==
    (AllExternal(pipeline) /\ Unspawnable(pipeline) # {}) =>
        LET i == Least(Unspawnable(pipeline)) IN
        /\ ~AtWait
        /\ EventsOf("wait") = <<>>
        /\ Len(children) <= i - 1
        /\ ExecReturned =>
              /\ eresult = CommandError("cannot execute", pipeline[i].program, 0)
              /\ EventsOf("spawn") = EventRun("spawn", 1, i - 1)

\* Two stages spawned, and the last stage's program does not exist.
C11_Witness ==
    /\ ExecReturned
    /\ Len(pipeline) = 3
    /\ AllExternal(pipeline)
    /\ Unspawnable(pipeline) = {3}
    /\ Len(children) = 2
    /\ eresult.kind = "cannot execute"

\* ------------------------------------------------------------------ C12

\* execute_command has returned for the single command cd.
ReturnedFromSingleCd ==
    /\ ExecReturned
    /\ Len(pipeline) = 1
    /\ pipeline[1].program = CD

\* C12: when single-stage cd fails, the working directory is the one
\* before the call: cd to a directory that cannot be entered is an I/O
\* error, bare cd with HOME unset is a CommandError and no directory
\* change is attempted.
C12_FailedCdKeepsDirectory ==
    ReturnedFromSingleCd =>
        /\ eresult # ExecOk => cwd = cwd0
        /\ (pipeline[1].args # <<>> /\ pipeline[1].args[1] \notin ExistingDirs) =>
              (eresult = IoError /\ cwd = cwd0)
        /\ (pipeline[1].args = <<>> /\ home = <<>>) =>
              /\ eresult = CommandError("HOME unknown", <<>>, 0)
              /\ EventsOf("chdir") = <<>>
              /\ cwd = cwd0

\* cd to a directory that does not exist, from a directory other than /.
C12_Witness ==
    /\ ReturnedFromSingleCd
    /\ pipeline[1].args = <<NODIR>>
    /\ eresult = IoError
    /\ cwd = TMP

\* ------------------------------------------------------------------ C13

\* Every stage of p is a program a spawn finds.
AllSpawnable(p) == \A k \in 1..Len(p) : p[k].program \in Executables

IsPrefix(a, b) == Len(a) <= Len(b) /\ SubSeq(b, 1, Len(a)) = a

\* Spawn stage 1, ..., spawn stage n, wait on stage n, then wait on the
\* stages 1..n-1 from left to right.
ExpectedOrder(n) ==
    EventRun("spawn", 1, n) \o <<<<"wait", n>>>> \o EventRun("wait", 1, n - 1)

\* C13: for n >= 2 external commands that all spawn, the spawns and waits
\* happen in the order spawn 1..n, wait n, wait 1..n-1: what has happened
\* so far is always a prefix of that order, and all of it when
\* execute_command returns Ok.
C13_SpawnAndWaitOrder ==
    (Len(pipeline) >= 2 /\ AllSpawnable(pipeline)) =>
        /\ IsPrefix(events, ExpectedOrder(Len(pipeline)))
        /\ (ExecReturned /\ eresult = ExecOk) =>
              events = ExpectedOrder(Len(pipeline))

\* A pipeline of three stages has returned Ok.
C13_Witness ==
    /\ ExecReturned
    /\ eresult = ExecOk
    /\ Len(pipeline) = 3
    /\ AllSpawnable(pipeline)
    /\ Len(events) = 6

\* ------------------------------------------------------------------ C14

C15_LoopLeftOnlyOnExitOrRead ==
    mpc = "exited" => exit_reason \in {"exit", "eof", "readline error"}

\* ----------------------------------------------------------------- C16
\* The arguments with one space between neighbours, built from the right end.
RECURSIVE SpaceSeparated(_)
SpaceSeparated(args) ==
    IF args = <<>> THEN <<>>
    ELSE IF Len(args) = 1 THEN args[1]
    ELSE SpaceSeparated(SubSeq(args, 1, Len(args) - 1))
             \o <<SP>> \o args[Len(args)]

SingleEcho == Len(pipeline) = 1 /\ pipeline[1].program = ECHO

\* C16: single-stage echo, whatever its arguments, writes exactly the
\* arguments joined by single spaces and one newline, returns success, spawns
\* no process at any time and leaves the working directory as it was.
C16_SingleEcho ==
    SingleEcho =>
        /\ children = <<>>
        /\ EventsOf("spawn") = <<>>
        /\ cwd = cwd0
        /\ ~ExecReturned => shell_out = <<>>
        /\ ExecReturned =>
              /\ eresult = ExecOk
              /\ shell_out = <<SpaceSeparated(pipeline[1].args) \o <<"\n">>>>

C16_Witness ==
    /\ ExecReturned
    /\ pipeline = <<Cmd(ECHO, <<<<"a">>, <<"b">>>>)>>
    /\ shell_out = <<<<"a", " ", "b", "\n">>>>

\* ----------------------------------------------------------------- C17
\* The shell holds the captured stdout of stage k: in the pending slot, or in
\* the input configuration built for the next spawn.
InSlot(k) == previous_stdout = <<k>>
InConfig(k) == stdin_cfg = FromPipe(k)
ShellHolds(k) == InSlot(k) \/ InConfig(k)

\* The spawned stages reading from the captured stdout of stage k.
Readers(k) == {j \in 1..Len(children) : children[j].stdin = FromPipe(k)}

\* How many owners the captured stdout of stage k has.
Owners(k) ==
    (IF InSlot(k) THEN 1 ELSE 0) + (IF InConfig(k) THEN 1 ELSE 0)
        + Cardinality(Readers(k))

\* C17: in a pipeline of n >= 2 external commands, stage 1 reads the
\* inherited stdin, stage n writes the inherited stdout, every stage i + 1
\* reads exactly the captured stdout of stage i; each captured stdout has at
\* most one owner at every point; and once stage i + 1 is spawned or its spawn
\* has failed, the shell holds no captured stdout of stage i.
C17_PipeWiringAndOwnership ==
    (Len(pipeline) >= 2 /\ AllExternal(pipeline)) =>
        LET n == Len(pipeline) IN
        /\ \A j \in 1..Len(children) :
              /\ children[j].stage = j
              /\ children[j].stdin = IF j = 1 THEN Inherit ELSE FromPipe(j - 1)
              /\ children[j].stdout = IF j = n THEN "inherit" ELSE "piped"
        /\ \A k \in 1..n :
              /\ Owners(k) <= 1
              /\ ShellHolds(k) => (k < n /\ Len(children) = k)
              /\ Len(children) > k => ~ShellHolds(k)
        /\ ExecReturned => (previous_stdout = <<>> /\ stdin_cfg = NoStdio)

C17_Witness ==
    /\ Len(pipeline) = 3
    /\ AllExternal(pipeline)
    /\ ExecReturned
    /\ Len(children) = 3
    /\ children[2].stdin = FromPipe(1)
    /\ children[3].stdin = FromPipe(2)
    /\ \A k \in 1..3 : Owners(k) = IF k < 3 THEN 1 ELSE 0

\* ----------------------------------------------------------------- C18
\* parse_input returned because parse_token returned None.
ReturnedOnNone ==
    result = Ok \/ result = ParseError("no valid command found")

\* C18: parse_token returns None only when the input is exhausted: whenever
\* parse_input returns on None, no non-whitespace character is left unread.
C18_NoneOnlyAtEndOfInput ==
    ReturnedOnNone => \A i \in pos..Len(input) : IsWhitespace(input[i])

\* ----------------------------------------------------------------- C19
\* A built-in alone: it runs in the shell and no process is ever spawned.
SingleBuiltinPolicy ==
    LET cmd == pipeline[1] IN
    /\ children = <<>>
    /\ EventsOf("spawn") = <<>>
    /\ EventsOf("wait") = <<>>
    /\ (ExecReturned /\ eresult = ExecOk) =>
          IF cmd.program = CD
          THEN /\ EventsOf("chdir") # <<>>
               /\ cwd = IF cmd.args # <<>> THEN cmd.args[1] ELSE home[1]
          ELSE Len(shell_out) = 1

\* An external command alone, once execute_command has returned: one process
\* with the shell's streams, waited on once, and its status as the result.
SpawnedOnceAndWaited ==
    /\ Len(children) = 1
    /\ EventsOf("spawn") = <<<<"spawn", 1>>>>
    /\ EventsOf("wait") = <<<<"wait", 1>>>>
    /\ children[1].stdin = Inherit
    /\ children[1].stdout = "inherit"
    /\ children[1].status # "running"
    /\ eresult = IF children[1].status = "0" THEN ExecOk
                 ELSE CommandError("exited", pipeline[1].program,
                                   IF children[1].status = "1" THEN 1 ELSE -1)

Count(kind, k) == Len(SelectSeq(events, LAMBDA e : e = <<kind, k>>))

\* Ok for two stages or more: each stage spawned once, waited on once, ended.
OkMeansAllWaited ==
    (ExecReturned /\ eresult = ExecOk /\ Len(pipeline) >= 2) =>
        /\ Len(children) = Len(pipeline)
        /\ \A k \in 1..Len(pipeline) :
              /\ Count("spawn", k) = 1
              /\ Count("wait", k) = 1
              /\ children[k].stage = k
              /\ children[k].status # "running"

\* C20: whenever execute_command returns Ok for a pipeline of n >= 2
\* commands, every stage was spawned exactly once and waited on exactly once
\* before the return; and, every spawned process eventually exiting,
\* execute_command eventually returns.
C20_AllWaitedAndReturns ==
    /\ []OkMeansAllWaited
    /\ <>ExecReturned

C20_Witness ==
    /\ ExecReturned
    /\ eresult = ExecOk
    /\ Len(pipeline) = 3
    /\ Count("wait", 1) = 1
    /\ Count("wait", 2) = 1
    /\ Count("wait", 3) = 1

====
